---- MODULE Spec2Model ----
(***************************************************************************)
(* Model of .github/workflows/build_and_test_run_fuzzer_benchmarks.py:     *)
(* the CI script that resolves the fuzzer,benchmark pairs to build, runs   *)
(* make for each pair with retries, and reclaims docker resources after    *)
(* every pair.                                                             *)
(*                                                                         *)
(* Strings that are only compared for equality are TLA+ strings.  A        *)
(* benchmark identifier is sorted on, so it is a sequence of one-character *)
(* strings and is compared by code point as Python compares str.  A        *)
(* command line is the flat sequence of its words.                         *)
(***************************************************************************)
EXTENDS Integers, Sequences, FiniteSets, TLC

\* ------------------------------------------------------------------ bounds
\* Number of benchmark identifiers that exist in the repository.
NumBenchmarks == 2
\* Number of containers (and of images) the docker daemon may report.
MaxContainers == 1

\* --------------------------------------------------------- program constants
ALWAYS_BUILD_FUZZER == "afl"
NUM_RETRIES == 2

\* ------------------------------------------------------------------ strings
\* The characters benchmark identifiers are written with, in code point order.
Alphabet == <<"0", "1", "2", "3", "4", "5", "6", "7", "8", "9">>

\* ord(c) - ord('0')
CharCode(c) == CHOOSE k \in 1..Len(Alphabet) : Alphabet[k] = c

\* str(n) for n >= 0
RECURSIVE Decimal(_)
Decimal(n) ==
    IF n < 10 THEN <<Alphabet[n + 1]>>
    ELSE Append(Decimal(n \div 10), Alphabet[(n % 10) + 1])

\* Python's a < b on str: lexicographic by code point, a proper prefix first.
RECURSIVE StrLess(_, _)
StrLess(a, b) ==
    IF b = <<>> THEN FALSE
    ELSE IF a = <<>> THEN TRUE
    ELSE IF Head(a) # Head(b) THEN CharCode(Head(a)) < CharCode(Head(b))
    ELSE StrLess(Tail(a), Tail(b))

\* ------------------------------------------------------------- environment
\* The benchmark identifiers: "9", "10", "11", ... (numeric and lexical order
\* differ on them).
Benchmarks == {Decimal(k + 8) : k \in 1..NumBenchmarks}
Fuzzers == {"afl", "coverage", "libfuzzer"}
BuildTypes == {"oss-fuzz", "standard", "bug"}
\* The id lists a docker listing can print: no line, or up to MaxContainers.
IdLists == {[k \in 1..n |-> ToString(k)] : n \in 0..MaxContainers}

\* Command lines sys.argv can hold: the program name and 0, 2 or 3 arguments.
ArgvChoices ==
    {<<"prog">>}
    \cup {<<"prog", bt, fz>> : bt \in BuildTypes \cup {"other"}, fz \in Fuzzers}
    \cup {<<"prog", "standard", "afl", "extra">>}

VARIABLES
    argv,               \* sys.argv
    catalog,            \* what benchmark_utils returns for the build type
    change_set,         \* what the change-detection source reports
    pc,                 \* position of the script
    benchmarks,         \* do_build's local
    queried,            \* change-detection projections asked for so far
    pairs,              \* make_builds' fuzzer_benchmark_pairs
    i,                  \* 1-based position of the for loop in pairs
    tries,              \* attempts run_command's wrapper has started
    container_ids,      \* local of stop_docker_containers/delete_docker_images
    image_ids,          \* local of delete_docker_images
    returncode,         \* exit status of the child process that exited last
    running,            \* command lines of the child processes alive
    trace,              \* command lines launched for the current pair
    built,              \* pairs whose make command has exited with status 0
    reclaimed,          \* pairs after which delete_docker_images returned
    invoked,            \* pairs run_command was called for, in call order
    result,             \* what do_build returned to main
    exception,          \* the exception that left main, <<>> if none
    usage,              \* whether the usage line was printed
    exit_code           \* the process exit status, -1 while running

vars == <<argv, catalog, change_set, pc, benchmarks, queried, pairs, i, tries,
          container_ids, image_ids, returncode, running, trace, built,
          reclaimed, invoked, result, exception, usage, exit_code>>

\* Groups of variables, for the UNCHANGED clauses.
env == <<argv, catalog, change_set>>
resolution == <<benchmarks, queried, pairs>>
ids == <<container_ids, image_ids>>
children == <<returncode, running, trace>>
history == <<built, reclaimed, invoked>>
outcome == <<result, exception, usage, exit_code>>

\* ---------------------------------------------------------------- helpers
build_type == argv[2]
fuzzer == argv[3]
\* Variant: the always-build identifier compared with the wrong argument.
always_build_by_type == ALWAYS_BUILD_FUZZER = build_type
always_build == ALWAYS_BUILD_FUZZER = fuzzer

\* retry.wrap(NUM_RETRIES, RETRY_DELAY, ...): the retry policy's attempt count.
MaxAttempts == NUM_RETRIES

\* Variant: the coverage build has no target name of its own.
get_make_target_NoCoverage(fz, benchmark) == <<"test-run-", fz, "-">> \o benchmark

get_make_target(fz, benchmark) ==
    IF fz = "coverage" THEN <<"build-coverage-">> \o benchmark
    ELSE <<"test-run-", fz, "-">> \o benchmark

make_command(fz, benchmark) ==
    <<"make", "RUNNING_ON_CI=yes", "-j">> \o get_make_target(fz, benchmark)

\* builder.get_fuzzer_benchmark_pairs([fz], order): one pair per benchmark, in
\* the iteration order of the benchmarks.
get_fuzzer_benchmark_pairs(fz, order) ==
    [k \in 1..Len(order) |-> <<fz, order[k]>>]

\* Variant: the comparison of the keys is reversed.
RECURSIVE Insert_Descending(_, _)
Insert_Descending(p, s) ==
    IF s = <<>> THEN <<p>>
    ELSE IF StrLess(Head(s)[2], p[2]) THEN <<p>> \o s
    ELSE <<Head(s)>> \o Insert_Descending(p, Tail(s))

\* Insert pair p into the sorted sequence s after every element whose key is
\* not greater (sorted() is stable).
RECURSIVE Insert(_, _)
Insert(p, s) ==
    IF s = <<>> THEN <<p>>
    ELSE IF StrLess(p[2], Head(s)[2]) THEN <<p>> \o s
    ELSE <<Head(s)>> \o Insert(p, Tail(s))

\* Variant: the pairs are left in the order they were produced in.
sorted_Unsorted(s) == s

\* sorted(s, key=lambda pair: pair[1])
RECURSIVE sorted(_)
sorted(s) ==
    IF s = <<>> THEN <<>>
    ELSE Insert(s[Len(s)], sorted(SubSeq(s, 1, Len(s) - 1)))

\* The orders in which a collection of benchmarks can be iterated.
Orders(S) ==
    {o \in [1..Cardinality(S) -> S] : \A x \in S : \E k \in DOMAIN o : o[k] = x}

\* ------------------------------------------------------------------- Init
Init ==
    /\ argv \in ArgvChoices
    /\ catalog \in SUBSET Benchmarks
    /\ change_set \in [fuzzers : SUBSET Fuzzers, benchmarks : SUBSET Benchmarks]
    /\ pc = "main"
    /\ benchmarks = {}
    /\ queried = {}
    /\ pairs = <<>>
    /\ i = 0
    /\ tries = 0
    /\ container_ids = <<>>
    /\ image_ids = <<>>
    /\ returncode = 0
    /\ running = {}
    /\ trace = <<>>
    /\ built = {}
    /\ reclaimed = {}
    /\ invoked = <<>>
    /\ result = FALSE
    /\ exception = <<>>
    /\ usage = FALSE
    /\ exit_code = -1

\* An exception nobody catches leaves main: the interpreter prints the
\* traceback and exits with status 1.
Raise(e) ==
    /\ pc' = "exited"
    /\ exception' = e
    /\ exit_code' = 1
    /\ UNCHANGED <<result, usage>>

\* subprocess.CalledProcessError for the command line cmd.
CalledProcessError(cmd) == <<"CalledProcessError">> \o cmd

\* subprocess starts the child process of command line cmd.
Launch(cmd) ==
    /\ running' = running \cup {cmd}
    /\ trace' = Append(trace, cmd)
    /\ UNCHANGED returncode

\* The child process of the call the script is blocked in.
Child == trace[Len(trace)]

\* The exit statuses of a child process: 0, or a failure.
ExitStatuses == {0, 1}

\* subprocess has waited for the child process, which exited with status rc.
Exited(rc) ==
    /\ running' = running \ {Child}
    /\ returncode' = rc
    /\ UNCHANGED trace

\* ---------------------------------------------------------------- actions
Main ==
    /\ pc = "main"
    /\ IF Len(argv) # 3
       THEN /\ usage' = TRUE
            /\ exit_code' = 1
            /\ pc' = "exited"
       ELSE /\ pc' = "do_build"
            /\ UNCHANGED <<usage, exit_code>>
    /\ UNCHANGED <<env, resolution, i, tries, ids, children, history, result,
                   exception>>

\* Variant: an unrecognised build type is not rejected and gets the catalog.
DoBuild_NoValidation ==
    /\ pc = "do_build"
    /\ benchmarks' = catalog
    /\ pc' = IF always_build THEN "make_builds" ELSE "get_changed_files"
    /\ UNCHANGED <<env, queried, pairs, i, tries, ids, children, history,
                   outcome>>

\* Variant: the changes are looked up before always_build is tested.
DoBuild_DetectFirst ==
    /\ pc = "do_build"
    /\ IF build_type \in {"oss-fuzz", "standard", "bug"}
       THEN /\ benchmarks' = catalog
            /\ pc' = "get_changed_files"
            /\ UNCHANGED outcome
       ELSE /\ Raise(<<"Exception", "Invalid build_type">>)
            /\ UNCHANGED benchmarks
    /\ UNCHANGED <<env, queried, pairs, i, tries, ids, children, history>>

DoBuild ==
    /\ pc = "do_build"
    /\ IF build_type \in {"oss-fuzz", "standard", "bug"}
       THEN /\ benchmarks' = catalog
            /\ pc' = IF always_build THEN "make_builds" ELSE "get_changed_files"
            /\ UNCHANGED outcome
       ELSE /\ Raise(<<"Exception", "Invalid build_type">>)
            /\ UNCHANGED benchmarks
    /\ UNCHANGED <<env, queried, pairs, i, tries, ids, children, history>>

\* diff_utils.get_changed_files(): asks the change-detection source, which
\* may fail.
GetChangedFiles ==
    /\ pc = "get_changed_files"
    /\ queried' = queried \cup {"files"}
    /\ \/ /\ pc' = "get_changed_fuzzers"
          /\ UNCHANGED outcome
       \/ Raise(<<"ChangeDetectionError">>)
    /\ UNCHANGED <<env, benchmarks, pairs, i, tries, ids, children, history>>

\* Variant: a changed fuzzer does not widen the build to the whole catalog.
GetChangedFuzzers_Narrow ==
    /\ pc = "get_changed_fuzzers"
    /\ queried' = queried \cup {"fuzzers"}
    /\ pc' = "get_changed_benchmarks"
    /\ UNCHANGED <<env, benchmarks, pairs, i, tries, ids, children, history,
                   outcome>>

GetChangedFuzzers ==
    /\ pc = "get_changed_fuzzers"
    /\ queried' = queried \cup {"fuzzers"}
    /\ pc' = IF fuzzer \in change_set.fuzzers
             THEN "make_builds" ELSE "get_changed_benchmarks"
    /\ UNCHANGED <<env, benchmarks, pairs, i, tries, ids, children, history,
                   outcome>>

\* Variant: the changed benchmarks are taken without intersecting them with
\* the catalog.
GetChangedBenchmarks_NoIntersection ==
    /\ pc = "get_changed_benchmarks"
    /\ queried' = queried \cup {"benchmarks"}
    /\ benchmarks' = change_set.benchmarks
    /\ pc' = "make_builds"
    /\ UNCHANGED <<env, pairs, i, tries, ids, children, history, outcome>>

GetChangedBenchmarks ==
    /\ pc = "get_changed_benchmarks"
    /\ queried' = queried \cup {"benchmarks"}
    /\ benchmarks' = benchmarks \cap change_set.benchmarks
    /\ pc' = "make_builds"
    /\ UNCHANGED <<env, pairs, i, tries, ids, children, history, outcome>>

MakeBuilds ==
    /\ pc = "make_builds"
    /\ \E order \in Orders(benchmarks) :
          pairs' = sorted(get_fuzzer_benchmark_pairs(fuzzer, order))
    /\ i' = 1
    /\ pc' = "for"
    /\ UNCHANGED <<env, benchmarks, queried, tries, ids, children, history,
                   outcome>>

\* Variant: with no pair to build make_builds reports a failure.
ForPair_EmptyIsFailure ==
    /\ pc = "for"
    /\ IF i <= Len(pairs)
       THEN /\ pc' = "run_command"
            /\ tries' = 0
            /\ trace' = <<>>
            /\ invoked' = Append(invoked, pairs[i])
            /\ UNCHANGED result
       ELSE /\ pc' = "return"
            /\ result' = (pairs # <<>>)
            /\ UNCHANGED <<tries, trace, invoked>>
    /\ UNCHANGED <<env, resolution, i, ids, returncode, running, built,
                   reclaimed, exception, usage, exit_code>>

\* The head of the for loop: take the next pair, or return True.
ForPair ==
    /\ pc = "for"
    /\ IF i <= Len(pairs)
       THEN /\ pc' = "run_command"
            /\ tries' = 0
            /\ trace' = <<>>
            /\ invoked' = Append(invoked, pairs[i])
            /\ UNCHANGED result
       ELSE /\ pc' = "return"
            /\ result' = TRUE
            /\ UNCHANGED <<tries, trace, invoked>>
    /\ UNCHANGED <<env, resolution, i, ids, returncode, running, built,
                   reclaimed, exception, usage, exit_code>>

\* run_command: one attempt of the wrapped function starts the make command.
RunCommand ==
    /\ pc = "run_command"
    /\ tries' = tries + 1
    /\ Launch(make_command(fuzzer, pairs[i][2]))
    /\ pc' = "check_call"
    /\ UNCHANGED <<env, resolution, i, ids, history, outcome>>

\* What the wrapper does when an attempt has failed: sleep and try again
\* while attempts remain, raise the error otherwise.
Retry ==
    IF tries < MaxAttempts
    THEN /\ pc' = "run_command"
         /\ UNCHANGED outcome
    ELSE Raise(CalledProcessError(Child))

\* Variant: a build that failed on its last attempt is skipped and the loop
\* goes on with the next pair.
CheckCall_SkipAndContinue ==
    /\ pc = "check_call"
    /\ \E rc \in ExitStatuses :
          /\ Exited(rc)
          /\ IF rc = 0
             THEN /\ built' = built \cup {pairs[i]}
                  /\ pc' = "stop_docker_containers"
                  /\ i' = i
             ELSE /\ pc' = IF tries < MaxAttempts THEN "run_command" ELSE "for"
                  /\ i' = IF tries < MaxAttempts THEN i ELSE i + 1
                  /\ UNCHANGED built
    /\ UNCHANGED <<env, resolution, tries, ids, reclaimed, invoked, outcome>>

\* Variant: the docker resources are not reclaimed after a build; the loop
\* goes straight to the next pair.
CheckCall_NoReclaim ==
    /\ pc = "check_call"
    /\ \E rc \in ExitStatuses :
          /\ Exited(rc)
          /\ IF rc = 0
             THEN /\ built' = built \cup {pairs[i]}
                  /\ pc' = "for"
                  /\ i' = i + 1
                  /\ UNCHANGED outcome
             ELSE /\ Retry
                  /\ UNCHANGED <<built, i>>
    /\ UNCHANGED <<env, resolution, tries, ids, reclaimed, invoked>>

\* Variant: the command is run with subprocess.call, which reports a failure
\* in its return value only.
CheckCall_Unchecked ==
    /\ pc = "check_call"
    /\ \E rc \in ExitStatuses :
          /\ Exited(rc)
          /\ built' = IF rc = 0 THEN built \cup {pairs[i]} ELSE built
    /\ pc' = "stop_docker_containers"
    /\ UNCHANGED <<env, resolution, i, tries, ids, reclaimed, invoked, outcome>>

\* Variant: the failure of a build is not propagated; the loop reclaims and
\* goes on as after a success.
CheckCall_FailureIgnored ==
    /\ pc = "check_call"
    /\ \E rc \in ExitStatuses :
          /\ Exited(rc)
          /\ IF rc = 0
             THEN /\ built' = built \cup {pairs[i]}
                  /\ pc' = "stop_docker_containers"
             ELSE /\ pc' = IF tries < MaxAttempts
                           THEN "run_command" ELSE "stop_docker_containers"
                  /\ UNCHANGED built
    /\ UNCHANGED <<env, resolution, i, tries, ids, reclaimed, invoked, outcome>>

\* Variant: after the last failed attempt the loop calls run_command again
\* for the same pair.
CheckCall_RetryPair ==
    /\ pc = "check_call"
    /\ \E rc \in ExitStatuses :
          /\ Exited(rc)
          /\ IF rc = 0
             THEN /\ built' = built \cup {pairs[i]}
                  /\ pc' = "stop_docker_containers"
             ELSE /\ pc' = IF tries < MaxAttempts THEN "run_command" ELSE "for"
                  /\ UNCHANGED built
    /\ UNCHANGED <<env, resolution, i, tries, ids, reclaimed, invoked, outcome>>

\* subprocess.check_call returns: the make command has exited.
CheckCall ==
    /\ pc = "check_call"
    /\ \E rc \in ExitStatuses :
          /\ Exited(rc)
          /\ IF rc = 0
             THEN /\ built' = built \cup {pairs[i]}
                  /\ pc' = "stop_docker_containers"
                  /\ UNCHANGED outcome
             ELSE /\ Retry
                  /\ UNCHANGED built
    /\ UNCHANGED <<env, resolution, i, tries, ids, reclaimed, invoked>>

\* stop_docker_containers: docker ps -q, check=True
StopPs ==
    /\ pc = "stop_docker_containers"
    /\ Launch(<<"docker", "ps", "-q">>)
    /\ pc' = "ps"
    /\ UNCHANGED <<env, resolution, i, tries, ids, history, outcome>>

\* Variant: the kill is issued whether or not a container is running.
StopPsExit_AlwaysKill ==
    /\ pc = "ps"
    /\ \E rc \in ExitStatuses :
          /\ Exited(rc)
          /\ IF rc = 0
             THEN /\ \E lines \in IdLists : container_ids' = lines
                  /\ pc' = "kill"
                  /\ UNCHANGED outcome
             ELSE /\ Raise(CalledProcessError(Child))
                  /\ UNCHANGED container_ids
    /\ UNCHANGED <<env, resolution, i, tries, image_ids, history>>

\* Variant: the daemon restart sits inside the 'if container_ids:' block.
StopPsExit_RestartInsideIf ==
    /\ pc = "ps"
    /\ \E rc \in ExitStatuses :
          /\ Exited(rc)
          /\ IF rc = 0
             THEN /\ \E lines \in IdLists :
                        /\ container_ids' = lines
                        /\ pc' = IF lines # <<>>
                                 THEN "kill" ELSE "delete_docker_images"
                  /\ UNCHANGED outcome
             ELSE /\ Raise(CalledProcessError(Child))
                  /\ UNCHANGED container_ids
    /\ UNCHANGED <<env, resolution, i, tries, image_ids, history>>

StopPsExit ==
    /\ pc = "ps"
    /\ \E rc \in ExitStatuses :
          /\ Exited(rc)
          /\ IF rc = 0
             THEN /\ \E lines \in IdLists :
                        /\ container_ids' = lines
                        /\ pc' = IF lines # <<>> THEN "kill" ELSE "restart"
                  /\ UNCHANGED outcome
             ELSE /\ Raise(CalledProcessError(Child))
                  /\ UNCHANGED container_ids
    /\ UNCHANGED <<env, resolution, i, tries, image_ids, history>>

\* docker kill <ids>, check=False
StopKill ==
    /\ pc = "kill"
    /\ Launch(<<"docker", "kill">> \o container_ids)
    /\ pc' = "kill_wait"
    /\ UNCHANGED <<env, resolution, i, tries, ids, history, outcome>>

\* The exit status is not looked at.
StopKillExit ==
    /\ pc = "kill_wait"
    /\ \E rc \in ExitStatuses : Exited(rc)
    /\ pc' = "restart"
    /\ UNCHANGED <<env, resolution, i, tries, ids, history, outcome>>

\* sudo service docker restart, check=True
Restart ==
    /\ pc = "restart"
    /\ Launch(<<"sudo", "service", "docker", "restart">>)
    /\ pc' = "restart_wait"
    /\ UNCHANGED <<env, resolution, i, tries, ids, history, outcome>>

\* Variant: the restart is run with check=False.
RestartExit_Unchecked ==
    /\ pc = "restart_wait"
    /\ \E rc \in ExitStatuses : Exited(rc)
    /\ pc' = "delete_docker_images"
    /\ container_ids' = <<>>
    /\ UNCHANGED <<env, resolution, i, tries, image_ids, history, outcome>>

\* On success time.sleep(5), and stop_docker_containers returns.
RestartExit ==
    /\ pc = "restart_wait"
    /\ \E rc \in ExitStatuses :
          /\ Exited(rc)
          /\ IF rc = 0
             THEN /\ pc' = "delete_docker_images"
                  /\ container_ids' = <<>>
                  /\ UNCHANGED outcome
             ELSE /\ Raise(CalledProcessError(Child))
                  /\ UNCHANGED container_ids
    /\ UNCHANGED <<env, resolution, i, tries, image_ids, history>>

\* delete_docker_images: docker ps -a -q, check=True
DeletePs ==
    /\ pc = "delete_docker_images"
    /\ Launch(<<"docker", "ps", "-a", "-q">>)
    /\ pc' = "ps_a"
    /\ UNCHANGED <<env, resolution, i, tries, ids, history, outcome>>

DeletePsExit ==
    /\ pc = "ps_a"
    /\ \E rc \in ExitStatuses :
          /\ Exited(rc)
          /\ IF rc = 0
             THEN /\ \E lines \in IdLists :
                        /\ container_ids' = lines
                        /\ pc' = IF lines # <<>> THEN "rm" ELSE "images"
                  /\ UNCHANGED outcome
             ELSE /\ Raise(CalledProcessError(Child))
                  /\ UNCHANGED container_ids
    /\ UNCHANGED <<env, resolution, i, tries, image_ids, history>>

\* docker rm -f <ids>, check=False
DeleteRm ==
    /\ pc = "rm"
    /\ Launch(<<"docker", "rm", "-f">> \o container_ids)
    /\ pc' = "rm_wait"
    /\ UNCHANGED <<env, resolution, i, tries, ids, history, outcome>>

DeleteRmExit ==
    /\ pc = "rm_wait"
    /\ \E rc \in ExitStatuses : Exited(rc)
    /\ pc' = "images"
    /\ UNCHANGED <<env, resolution, i, tries, ids, history, outcome>>

\* docker images -a -q, check=True
DeleteImages ==
    /\ pc = "images"
    /\ Launch(<<"docker", "images", "-a", "-q">>)
    /\ pc' = "images_wait"
    /\ UNCHANGED <<env, resolution, i, tries, ids, history, outcome>>

DeleteImagesExit ==
    /\ pc = "images_wait"
    /\ \E rc \in ExitStatuses :
          /\ Exited(rc)
          /\ IF rc = 0
             THEN /\ \E lines \in IdLists :
                        /\ image_ids' = lines
                        /\ pc' = IF lines # <<>> THEN "rmi" ELSE "prune"
                  /\ UNCHANGED outcome
             ELSE /\ Raise(CalledProcessError(Child))
                  /\ UNCHANGED image_ids
    /\ UNCHANGED <<env, resolution, i, tries, container_ids, history>>

\* docker rmi -f <ids>, check=False
DeleteRmi ==
    /\ pc = "rmi"
    /\ Launch(<<"docker", "rmi", "-f">> \o image_ids)
    /\ pc' = "rmi_wait"
    /\ UNCHANGED <<env, resolution, i, tries, ids, history, outcome>>

DeleteRmiExit ==
    /\ pc = "rmi_wait"
    /\ \E rc \in ExitStatuses : Exited(rc)
    /\ pc' = "prune"
    /\ UNCHANGED <<env, resolution, i, tries, ids, history, outcome>>

\* docker builder prune -f, check=False
DeletePrune ==
    /\ pc = "prune"
    /\ Launch(<<"docker", "builder", "prune", "-f">>)
    /\ pc' = "prune_wait"
    /\ UNCHANGED <<env, resolution, i, tries, ids, history, outcome>>

\* Variant: the prune is run with check=True.
DeletePruneExit_Checked ==
    /\ pc = "prune_wait"
    /\ \E rc \in ExitStatuses :
          /\ Exited(rc)
          /\ IF rc = 0
             THEN /\ container_ids' = <<>>
                  /\ image_ids' = <<>>
                  /\ reclaimed' = reclaimed \cup {pairs[i]}
                  /\ i' = i + 1
                  /\ pc' = "for"
                  /\ UNCHANGED outcome
             ELSE /\ Raise(CalledProcessError(Child))
                  /\ UNCHANGED <<ids, reclaimed, i>>
    /\ UNCHANGED <<env, resolution, tries, built, invoked>>

\* delete_docker_images returns and the for loop moves to the next pair.
DeletePruneExit ==
    /\ pc = "prune_wait"
    /\ \E rc \in ExitStatuses : Exited(rc)
    /\ container_ids' = <<>>
    /\ image_ids' = <<>>
    /\ reclaimed' = reclaimed \cup {pairs[i]}
    /\ i' = i + 1
    /\ pc' = "for"
    /\ UNCHANGED <<env, resolution, tries, built, invoked, outcome>>

\* Variant: the two exit statuses are swapped.
MainReturn_Inverted ==
    /\ pc = "return"
    /\ exit_code' = IF result THEN 1 ELSE 0
    /\ pc' = "exited"
    /\ UNCHANGED <<env, resolution, i, tries, ids, children, history, result,
                   exception, usage>>

\* main: return 0 if result else 1, handed to sys.exit.
MainReturn ==
    /\ pc = "return"
    /\ exit_code' = IF result THEN 0 ELSE 1
    /\ pc' = "exited"
    /\ UNCHANGED <<env, resolution, i, tries, ids, children, history, result,
                   exception, usage>>

Next ==
    \/ Main
    \/ DoBuild
    \/ GetChangedFiles
    \/ GetChangedFuzzers
    \/ GetChangedBenchmarks
    \/ MakeBuilds
    \/ ForPair
    \/ RunCommand
    \/ CheckCall
    \/ StopPs
    \/ StopPsExit
    \/ StopKill
    \/ StopKillExit
    \/ Restart
    \/ RestartExit
    \/ DeletePs
    \/ DeletePsExit
    \/ DeleteRm
    \/ DeleteRmExit
    \/ DeleteImages
    \/ DeleteImagesExit
    \/ DeleteRmi
    \/ DeleteRmiExit
    \/ DeletePrune
    \/ DeletePruneExit
    \/ MainReturn

Spec == Init /\ [][Next]_vars

TypeOK ==
    /\ pc \in {"main", "do_build", "get_changed_files", "get_changed_fuzzers",
               "get_changed_benchmarks", "make_builds", "for", "run_command",
               "check_call", "stop_docker_containers", "ps", "kill",
               "kill_wait", "restart", "restart_wait", "delete_docker_images",
               "ps_a", "rm", "rm_wait", "images", "images_wait", "rmi",
               "rmi_wait", "prune", "prune_wait", "return", "exited"}
    /\ tries \in 0..MaxAttempts
    /\ exit_code \in {-1, 0, 1}

\* ------------------------------------------------- vocabulary of the claims
\* The fuzzer and build type as given on the command line.
ArgFuzzer == argv[3]
ArgBuildType == argv[2]
ForceAll == Len(argv) = 3 /\ ArgFuzzer = "afl"
NotForced == Len(argv) = 3 /\ ArgFuzzer # "afl"

\* make_builds has computed the pair sequence.
Resolved == i >= 1

PairSet == {pairs[k] : k \in 1..Len(pairs)}
PairsOf(fz, S) == {<<fz, b>> : b \in S}

\* pairs holds no pair twice and is ascending in the benchmark identifier.
Ascending ==
    \A k \in 1..(Len(pairs) - 1) : StrLess(pairs[k][2], pairs[k + 1][2])

\* The kind of a command line.
Kind(cmd) ==
    IF cmd[1] = "make" THEN "make"
    ELSE IF cmd[1] = "sudo" THEN "restart"
    ELSE IF cmd[2] = "ps" THEN (IF cmd[3] = "-a" THEN "ps -a" ELSE "ps")
    ELSE IF cmd[2] = "builder" THEN "prune"
    ELSE cmd[2]

Kinds(tr) == [k \in 1..Len(tr) |-> Kind(tr[k])]
MakeCount(tr) == Cardinality({k \in 1..Len(tr) : Kind(tr[k]) = "make"})

\* The last command launched has exited with a failure status.
LastFailed(kind) ==
    /\ trace # <<>>
    /\ Kind(Child) = kind
    /\ running = {}
    /\ returncode # 0

Halted == pc = "exited" /\ exit_code = 1 /\ result = FALSE

\* Nothing is launched and no pair is taken in this step.
NothingDispatched ==
    trace' = trace /\ running' = running /\ i' = i /\ built' = built

\* ------------------------------------------------------------------ claims
\* C1: when the build is not forced and the fuzzer is not among the changed
\* fuzzers, the pairs resolved are exactly the fuzzer paired with each catalog
\* benchmark that is also a changed benchmark, each once, in ascending order
\* of benchmark identifier; only these pairs are built, and a successful run
\* has built all of them.
C1_NarrowPath ==
    (Resolved /\ NotForced /\ ArgFuzzer \notin change_set.fuzzers) =>
        /\ PairSet = PairsOf(ArgFuzzer, catalog \cap change_set.benchmarks)
        /\ Len(pairs) = Cardinality(catalog \cap change_set.benchmarks)
        /\ Ascending
        /\ built \subseteq PairSet
        /\ (exit_code = 0 => built = PairSet)

\* A successful run on the narrow path that built fewer pairs than the catalog
\* has benchmarks.
C1_Witness ==
    /\ Resolved
    /\ NotForced
    /\ ArgFuzzer \notin change_set.fuzzers
    /\ catalog \ change_set.benchmarks # {}
    /\ pairs # <<>>
    /\ exit_code = 0

\* C2: when the fuzzer is the always-build fuzzer, the pairs resolved are the
\* fuzzer paired with every benchmark of the catalog of the (valid) build
\* type, whatever the change set holds.
C2_ForceAll ==
    (Resolved /\ ForceAll) =>
        /\ ArgBuildType \in BuildTypes
        /\ PairSet = PairsOf("afl", catalog)
        /\ Len(pairs) = Cardinality(catalog)
        /\ Ascending

\* A forced resolution of a full catalog while the change set is empty.
C2_Witness ==
    /\ Resolved
    /\ ForceAll
    /\ change_set.fuzzers = {}
    /\ change_set.benchmarks = {}
    /\ Len(pairs) = NumBenchmarks

\* C3: when the build is not forced and the fuzzer is among the changed
\* fuzzers, the pairs resolved are the fuzzer paired with every benchmark of
\* the catalog, whatever the changed benchmarks are.
C3_ChangedFuzzer ==
    (Resolved /\ NotForced /\ ArgFuzzer \in change_set.fuzzers) =>
        /\ PairSet = PairsOf(ArgFuzzer, catalog)
        /\ Len(pairs) = Cardinality(catalog)
        /\ Ascending

\* A changed fuzzer resolved against the full catalog while no benchmark has
\* changed.
C3_Witness ==
    /\ Resolved
    /\ NotForced
    /\ ArgFuzzer \in change_set.fuzzers
    /\ change_set.benchmarks = {}
    /\ Len(pairs) = NumBenchmarks

\* Every attempt of the build of the current pair has failed.
BuildExhausted == LastFailed("make") /\ MakeCount(trace) = NUM_RETRIES

\* C4: when the build command of a pair has failed on every attempt, the run
\* has ended in failure, and from then on no command is dispatched and no
\* later pair is taken.
C4_BuildFailureHalts ==
    /\ [](BuildExhausted =>
            (Halted /\ exception = CalledProcessError(Child)
                /\ pairs[i] \notin built))
    /\ [][BuildExhausted => NothingDispatched]_vars

\* The first pair's build failed on every attempt while more pairs follow.
C4_Witness ==
    /\ BuildExhausted
    /\ i < Len(pairs)
    /\ pc = "exited"

\* What holds of the attempts in every state, and in every step.
C5_State ==
    /\ MakeCount(trace) <= NUM_RETRIES
    /\ (exception # <<>> /\ exception[1] = "CalledProcessError"
           /\ exception[2] = "make") => MakeCount(trace) = NUM_RETRIES
    /\ (LastFailed("make") /\ MakeCount(trace) < NUM_RETRIES) =>
           (pc = "run_command" /\ exception = <<>>)

C5_Step ==
    (i \in 1..Len(pairs) /\ pairs[i] \in built /\ i' = i) =>
        MakeCount(trace') = MakeCount(trace)

\* C5: a build command is attempted at most NUM_RETRIES times; the error
\* surfaces only after exactly NUM_RETRIES failed attempts, an earlier failed
\* attempt is followed by another attempt, and once an attempt has succeeded
\* the command is not run again for that pair.
C5_Attempts == []C5_State /\ [][C5_Step]_vars

\* A build that succeeded on its first attempt, with attempts to spare, and
\* whose reclamation has reached the prune without another attempt.
C5_Witness ==
    /\ i \in 1..Len(pairs)
    /\ pairs[i] \in built
    /\ MakeCount(trace) = 1
    /\ MakeCount(trace) < NUM_RETRIES
    /\ Kind(Child) = "prune"

\* C6 as claimed: a run halted by a failed command was halted by the build
\* command or by the daemon restart.
C6_AsClaimed ==
    (exception # <<>> /\ exception[1] = "CalledProcessError") =>
        Kind(Tail(exception)) \in {"make", "restart"}

\* The exit of a best-effort command, and the commands whose failure halts.
C6_Step ==
    pc \in {"kill_wait", "rm_wait", "rmi_wait", "prune_wait"} =>
        (pc' # "exited" /\ exception' = <<>> /\ exit_code' = -1)

C6_State ==
    (exception # <<>> /\ exception[1] = "CalledProcessError") =>
        Kind(Tail(exception)) \in {"make", "restart", "ps", "ps -a", "images"}

\* C6 as amended: the exit of a kill, remove-containers, remove-images or
\* prune command never halts the run, whatever its status; a run halted by a
\* failed command was halted by the build command, the daemon restart or one
\* of the three listing commands.
C6_BestEffort == [][C6_Step]_vars /\ []C6_State

\* The prune after the first pair failed and the build of the second pair is
\* about to start.
C6_Witness ==
    /\ pc = "run_command"
    /\ i = 2
    /\ tries = 0
    /\ returncode # 0

\* C7: when the daemon restart has failed, the run has ended in failure with
\* that error, and from then on no command is dispatched and no later pair is
\* taken.
C7_RestartFailureHalts ==
    /\ [](LastFailed("restart") =>
            (Halted /\ exception = CalledProcessError(Child)))
    /\ [][LastFailed("restart") => NothingDispatched]_vars

\* The restart after the first pair failed while more pairs follow.
C7_Witness ==
    /\ LastFailed("restart")
    /\ i < Len(pairs)
    /\ pc = "exited"

\* C8: with a build type other than oss-fuzz, standard and bug, no command is
\* ever launched, no change detection is asked, no pair is resolved, and the
\* run ends with the invalid-build-type exception and status 1.
C8_InvalidBuildType ==
    (Len(argv) = 3 /\ ArgBuildType \notin {"oss-fuzz", "standard", "bug"}) =>
        /\ trace = <<>>
        /\ running = {}
        /\ queried = {}
        /\ built = {}
        /\ ~Resolved
        /\ \/ pc \in {"main", "do_build"} /\ exit_code = -1
           \/ /\ pc = "exited"
              /\ exit_code = 1
              /\ exception = <<"Exception", "Invalid build_type">>

\* The always-build fuzzer with an unrecognised build type, rejected.
C8_Witness ==
    /\ ForceAll
    /\ ArgBuildType = "other"
    /\ pc = "exited"
    /\ exception # <<>>

\* What holds of the exit status whatever the run.
UsageError ==
    Len(argv) # 3 =>
        /\ trace = <<>>
        /\ running = {}
        /\ queried = {}
        /\ built = {}
        /\ ~Resolved
        /\ \/ pc = "main" /\ ~usage /\ exit_code = -1
           \/ pc = "exited" /\ usage /\ exit_code = 1

\* C9 as claimed: the exit status is 0 exactly when every resolved pair was
\* built successfully.
C9_AsClaimed ==
    pc = "exited" =>
        (exit_code = 0 <=> (Len(argv) = 3 /\ Resolved /\ PairSet \subseteq built))

\* C9 as amended: the exit status is 0 exactly when every resolved pair was
\* built successfully and the reclamation after each of them ran to its end;
\* it is 1 in every other case, in particular after any exception; with an
\* argument count other than two the usage line is printed, the status is 1
\* and no command is launched.
C9_ExitStatus ==
    /\ pc = "exited" =>
         /\ exit_code \in {0, 1}
         /\ exit_code = 0 <=>
                /\ Len(argv) = 3
                /\ Resolved
                /\ PairSet \subseteq built
                /\ PairSet \subseteq reclaimed
    /\ pc # "exited" => exit_code = -1
    /\ exception # <<>> => exit_code = 1
    /\ usage => Len(argv) # 3
    /\ UsageError

\* Every resolved pair was built, and the run still ended with status 1.
C9_Witness ==
    /\ pc = "exited"
    /\ Resolved
    /\ pairs # <<>>
    /\ PairSet \subseteq built
    /\ exit_code = 1

\* The commands every reclamation runs, in their order.
IsRequired(k) == k \in {"ps", "restart", "ps -a", "images", "prune"}
CompleteReclamation(tr) ==
    SelectSeq(Kinds(tr), IsRequired) =
        <<"ps", "restart", "ps -a", "images", "prune">>

\* Sequential execution, in every state.
C10_State ==
    /\ Cardinality(running) <= 1
    /\ (MakeCount(trace) > 0 /\ i \in 1..Len(pairs)) =>
           \A k \in 1..(i - 1) : pairs[k] \in built \cap reclaimed
    /\ exit_code = 0 => PairSet \subseteq reclaimed

\* A reclamation command is launched.
ReclamationLaunch ==
    /\ trace' # trace
    /\ trace' # <<>>
    /\ Kind(trace'[Len(trace')]) # "make"

\* Sequential execution, in every step.
C10_Step ==
    /\ ReclamationLaunch => (running = {} /\ pairs[i] \in built)
    /\ (trace' # trace /\ trace' # <<>>) => running = {}
    /\ (i >= 1 /\ i' # i) =>
           /\ i' = i + 1
           /\ CompleteReclamation(trace)
           /\ running' = {}
           /\ reclaimed' = reclaimed \cup {pairs[i]}
           /\ pairs[i] \notin reclaimed
    /\ reclaimed' # reclaimed => i' # i

\* C10: at most one child process is alive at any time; a reclamation command
\* is launched only for a pair whose build has exited successfully; while a
\* pair is being built every earlier pair has been reclaimed; the loop moves
\* from a pair to the next one only by the end of one complete reclamation of
\* that pair, with no child process left; a successful run has reclaimed
\* after every pair, the last one included.
C10_Sequential == []C10_State /\ [][C10_Step]_vars

\* The second pair is being built after the first one was reclaimed.
C10_Witness ==
    /\ pc = "check_call"
    /\ i = 2
    /\ pairs[1] \in reclaimed
    /\ Cardinality(running) = 1

\* The command line the build of benchmark b must be run with.
ExpectedMake(b) ==
    IF ArgFuzzer = "coverage"
    THEN <<"make", "RUNNING_ON_CI=yes", "-j", "build-coverage-">> \o b
    ELSE <<"make", "RUNNING_ON_CI=yes", "-j", "test-run-", ArgFuzzer, "-">> \o b

\* The build command of the current pair is dispatched in this step.
BuildDispatch == pc = "run_command" /\ pc' = "check_call"

\* The command alive during a build, and the command a dispatch launches.
C11_State == pc = "check_call" => running = {ExpectedMake(pairs[i][2])}

C11_Step ==
    BuildDispatch =>
        /\ trace' = Append(trace, ExpectedMake(pairs[i][2]))
        /\ running' = running \cup {ExpectedMake(pairs[i][2])}

\* C11: the command dispatched for a pair is make RUNNING_ON_CI=yes -j
\* <target>, with the target build-coverage-<benchmark> when the fuzzer is
\* "coverage" and test-run-<fuzzer>-<benchmark> for every other fuzzer.
C11_MakeTarget == []C11_State /\ [][C11_Step]_vars

\* The coverage build of benchmark "10" is running.
C11_Witness ==
    /\ pc = "check_call"
    /\ ArgFuzzer = "coverage"
    /\ running =
          {<<"make", "RUNNING_ON_CI=yes", "-j", "build-coverage-", "1", "0">>}

\* C12: make_builds has returned True, or the process has exited with status
\* 0, only if the build of every pair of the sequence has succeeded (which an
\* empty sequence satisfies); after a build that failed on its last attempt
\* neither ever happens.
C12_State ==
    /\ (result \/ exit_code = 0) =>
           (Resolved /\ PairSet \subseteq built /\ invoked = pairs)
    /\ BuildExhausted => (~result /\ exit_code # 0)

C12_SuccessOnlyIfAllBuilt == []C12_State /\ [][BuildExhausted => ~result']_vars

\* make_builds has returned True after building every benchmark.
C12_Witness ==
    /\ result
    /\ Len(pairs) = NumBenchmarks
    /\ PairSet \subseteq built

\* A kill, remove-containers or remove-images command is launched in this step.
RemovalLaunch(kind) ==
    /\ trace' # trace
    /\ trace' # <<>>
    /\ Kind(trace'[Len(trace')]) = kind

\* A listing that exits successfully with no line is followed by the step
\* after the command it guards, and raises nothing.
C13_Step ==
    /\ RemovalLaunch("kill") =>
           (container_ids # <<>>
               /\ trace'[Len(trace')] = <<"docker", "kill">> \o container_ids)
    /\ RemovalLaunch("rm") =>
           (container_ids # <<>>
               /\ trace'[Len(trace')] = <<"docker", "rm", "-f">> \o container_ids)
    /\ RemovalLaunch("rmi") =>
           (image_ids # <<>>
               /\ trace'[Len(trace')] = <<"docker", "rmi", "-f">> \o image_ids)
    /\ (pc = "ps" /\ returncode' = 0 /\ container_ids' = <<>>) =>
           (pc' = "restart" /\ UNCHANGED outcome)
    /\ (pc = "ps_a" /\ returncode' = 0 /\ container_ids' = <<>>) =>
           (pc' = "images" /\ UNCHANGED outcome)
    /\ (pc = "images_wait" /\ returncode' = 0 /\ image_ids' = <<>>) =>
           (pc' = "prune" /\ UNCHANGED outcome)

\* C13: a kill or a remove-containers command is launched only with a
\* non-empty container id list and a remove-images command only with a
\* non-empty image id list; an empty listing raises nothing and the next
\* reclamation step follows it.
C13_EmptyListsAreNoOps == [][C13_Step]_vars

\* A run that ended in success and whose last reclamation issued no kill, no
\* remove-containers and no remove-images command.
C13_Witness ==
    /\ exit_code = 0
    /\ pairs # <<>>
    /\ SelectSeq(Kinds(trace), IsRequired) = Tail(Kinds(trace))
    /\ CompleteReclamation(trace)

\* The benchmarks the request has to be resolved to.
ExpectedBenchmarks ==
    IF ForceAll \/ ArgFuzzer \in change_set.fuzzers
    THEN catalog
    ELSE catalog \cap change_set.benchmarks

\* C14: the pair sequence a resolution yields is the one every resolution of
\* the same build type, fuzzer, catalog and change set yields, in whatever
\* order the benchmarks happen to be iterated.
C14_Deterministic ==
    Resolved =>
        \A order \in Orders(ExpectedBenchmarks) :
            pairs = sorted(get_fuzzer_benchmark_pairs(ArgFuzzer, order))

\* A resolution of the narrow path with as many pairs as there are
\* benchmarks, which can be iterated in more than one order.
C14_Witness ==
    /\ Resolved
    /\ NotForced
    /\ ArgFuzzer \notin change_set.fuzzers
    /\ Len(pairs) = NumBenchmarks
    /\ Cardinality(Orders(ExpectedBenchmarks)) > 1

IsPrefix(p, s) == Len(p) <= Len(s) /\ SubSeq(s, 1, Len(p)) = p

\* The orders of the commands of one reclamation.
Opt(kind) == {<<>>, <<kind>>}
ReclamationOrders ==
    {<<"ps">> \o a \o <<"restart", "ps -a">> \o b \o <<"images">> \o c
        \o <<"prune">> : a \in Opt("kill"), b \in Opt("rm"), c \in Opt("rmi")}

\* The commands launched for the current pair after its build attempts.
ReclamationPart(tr) == SubSeq(Kinds(tr), MakeCount(tr) + 1, Len(tr))

\* The commands of a pair are its build attempts followed by the beginning
\* of a reclamation in the fixed order.
C15_State ==
    /\ \A k \in 1..MakeCount(trace) : Kind(trace[k]) = "make"
    /\ \E full \in ReclamationOrders : IsPrefix(ReclamationPart(trace), full)
    /\ \A c \in running : c = Child

\* The listing of all containers, the first command after the restart, is
\* launched once the restart has exited with success.
C15_Step ==
    /\ RemovalLaunch("ps -a") =>
           (running = {} /\ Kind(Child) = "restart" /\ returncode = 0)
    /\ (\E k \in {"rm", "images", "rmi", "prune"} : RemovalLaunch(k)) =>
           (running = {}
               /\ \E k \in 1..Len(trace) : Kind(trace[k]) = "restart")

C16_State ==
    /\ Ascending
    /\ IsPrefix(invoked, pairs)
    /\ pc \in {"run_command", "check_call"} =>
           (Len(invoked) = i /\ invoked[i] = pairs[i])
    /\ built \subseteq {invoked[k] : k \in 1..Len(invoked)}
    /\ exit_code = 0 => (invoked = pairs /\ built = PairSet)

\* The build command dispatched is the one of the pair handed over last.
C16_Step ==
    BuildDispatch =>
        trace'[Len(trace')] = ExpectedMake(invoked[Len(invoked)][2])

\* C16: builds are dispatched in ascending order of benchmark identifier and
\* every resolved pair is handed to run_command once: the hand-overs follow
\* the pair sequence without repeating or skipping a pair, and a successful
\* run has handed over each pair exactly once.
C16_AscendingOnce == []C16_State /\ [][C16_Step]_vars

\* A successful run over as many pairs as there are benchmarks.
C16_Witness ==
    /\ exit_code = 0
    /\ Len(invoked) = NumBenchmarks

\* The most steps one pair can take: the loop head, a launch and an exit for
\* each attempt, and the sixteen steps of a reclamation.
PerPair == 2 * NUM_RETRIES + 17

\* The steps left in a reclamation, by position.
ReclaimRank ==
    [p \in {"stop_docker_containers", "ps", "kill", "kill_wait", "restart",
            "restart_wait", "delete_docker_images", "ps_a", "rm", "rm_wait",
            "images", "images_wait", "rmi", "rmi_wait", "prune", "prune_wait"}
        |-> CASE p = "stop_docker_containers" -> 16
              [] p = "ps" -> 15
              [] p = "kill" -> 14
              [] p = "kill_wait" -> 13
              [] p = "restart" -> 12
              [] p = "restart_wait" -> 11
              [] p = "delete_docker_images" -> 10
              [] p = "ps_a" -> 9
              [] p = "rm" -> 8
              [] p = "rm_wait" -> 7
              [] p = "images" -> 6
              [] p = "images_wait" -> 5
              [] p = "rmi" -> 4
              [] p = "rmi_wait" -> 3
              [] p = "prune" -> 2
              [] p = "prune_wait" -> 1]

\* The steps left at the loop head when n pairs are still to be taken.
AtLoopHead(n) == 2 + n * PerPair

\* An upper bound of the number of steps the run can still take.
Measure ==
    CASE pc = "exited" -> 0
      [] pc = "return" -> 1
      [] pc = "for" -> AtLoopHead(Len(pairs) - i + 1)
      [] pc = "run_command" ->
            2 * (NUM_RETRIES - tries) + 16 + AtLoopHead(Len(pairs) - i)
      [] pc = "check_call" ->
            2 * (NUM_RETRIES - tries) + 17 + AtLoopHead(Len(pairs) - i)
      [] pc \in DOMAIN ReclaimRank ->
            ReclaimRank[pc] + AtLoopHead(Len(pairs) - i)
      [] pc = "make_builds" -> 1 + AtLoopHead(Cardinality(benchmarks))
      [] pc = "get_changed_benchmarks" -> 2 + AtLoopHead(Cardinality(benchmarks))
      [] pc = "get_changed_fuzzers" -> 3 + AtLoopHead(Cardinality(benchmarks))
      [] pc = "get_changed_files" -> 4 + AtLoopHead(Cardinality(benchmarks))
      [] pc = "do_build" -> 5 + AtLoopHead(Cardinality(catalog))
      [] pc = "main" -> 6 + AtLoopHead(Cardinality(catalog))

\* How a run has ended: in success after building and reclaiming every pair,
\* or with status 1 at the usage error or at the first exception, with no
\* pair taken after the one that failed.
Ended ==
    \/ /\ exit_code = 0
       /\ PairSet \subseteq (built \cap reclaimed)
       /\ exception = <<>>
    \/ /\ exit_code = 1
       /\ usage \/ exception # <<>>
       /\ Len(invoked) <= i
       /\ \A k \in 1..Len(pairs) : k > i => pairs[k] \notin built

C17_State ==
    /\ Measure \in Nat
    /\ pc = "exited" \/ ENABLED Next
    /\ pc = "exited" => Ended

\* C17: every step of a run lowers a natural number that bounds the steps the
\* run has left (the pairs still to take, the attempts the current build has
\* left, the rest of the current reclamation); a run that has not ended can
\* always take a step; and a run that has ended has either built and
\* reclaimed every pair or halted at the usage error or the first exception.
C17_Terminates == []C17_State /\ [][Measure' < Measure]_vars

\* A run that ended in success after a build needed all its attempts.
C17_Witness ==
    /\ pc = "exited"
    /\ exit_code = 0
    /\ Len(pairs) = NumBenchmarks
    /\ MakeCount(trace) = NUM_RETRIES

\* The run was halted by the build command.
BuildError ==
    /\ exception # <<>>
    /\ exception[1] = "CalledProcessError"
    /\ exception[2] = "make"

\* After a build that failed for good, the commands of the pair are its build
\* attempts only and the pair is not reclaimed.
C18_State ==
    (BuildExhausted \/ BuildError) =>
        /\ \A k \in 1..Len(trace) : Kind(trace[k]) = "make"
        /\ pairs[i] \notin reclaimed
        /\ running = {}
        /\ pc = "exited"

\* A reclamation command is launched only for a pair that is built, and
\* nothing is launched once a build has failed for good.
C18_Step ==
    /\ ReclamationLaunch => (pairs[i] \in built /\ ~BuildError)
    /\ (BuildExhausted \/ BuildError) =>
           (trace' = trace /\ reclaimed' = reclaimed)

\* C18: when the build of a pair has failed on its last attempt, no
\* container-runtime command is launched for that pair, neither before nor
\* after the failure surfaces; reclamation commands are launched only for
\* pairs whose build has succeeded.
C18_NoReclaimAfterFailure == []C18_State /\ [][C18_Step]_vars

\* The build of the second pair failed for good after the first pair was
\* built and reclaimed.
C18_Witness ==
    /\ BuildExhausted
    /\ BuildError
    /\ i = 2
    /\ pairs[1] \in reclaimed
    /\ pairs[2] \notin reclaimed

\* C19: when the resolved pair sequence is empty, no command is ever
\* launched, run_command is never called, nothing is raised, and the run goes
\* from the loop head to 'return True' and exit status 0.
C19_EmptySequence ==
    (Resolved /\ pairs = <<>>) =>
        /\ trace = <<>>
        /\ running = {}
        /\ invoked = <<>>
        /\ built = {}
        /\ reclaimed = {}
        /\ exception = <<>>
        /\ \/ pc = "for" /\ ~result /\ exit_code = -1
           \/ pc = "return" /\ result /\ exit_code = -1
           \/ pc = "exited" /\ result /\ exit_code = 0

\* A run on the narrow path with a non-empty catalog of which no benchmark
\* has changed, ended with status 0.
C19_Witness ==
    /\ Resolved
    /\ NotForced
    /\ ArgFuzzer \notin change_set.fuzzers
    /\ catalog # {}
    /\ change_set.benchmarks # {}
    /\ pairs = <<>>
    /\ pc = "exited"
    /\ exit_code = 0

\* C20: with the always-build fuzzer no projection of the change-detection
\* source is ever asked for and no change-detection failure ends the run;
\* with a changed fuzzer the changed files and fuzzers are asked for and the
\* changed benchmarks never; all three are asked for only on the narrow path.
C20_DetectionOnlyWhenNeeded ==
    /\ ForceAll =>
          /\ queried = {}
          /\ exception = <<>> \/ exception[1] # "ChangeDetectionError"
    /\ (NotForced /\ ArgFuzzer \in change_set.fuzzers) =>
          /\ "benchmarks" \notin queried
          /\ Resolved => queried = {"files", "fuzzers"}
    /\ (NotForced /\ ArgFuzzer \notin change_set.fuzzers /\ Resolved) =>
          queried = {"files", "fuzzers", "benchmarks"}
    /\ "benchmarks" \in queried => {"files", "fuzzers"} \subseteq queried
    /\ "fuzzers" \in queried => "files" \in queried

\* A forced rebuild of a non-empty catalog that ended in success without a
\* single query, while the change set names fuzzers and benchmarks.
C20_Witness ==
    /\ ForceAll
    /\ change_set.fuzzers # {}
    /\ change_set.benchmarks # {}
    /\ pairs # <<>>
    /\ exit_code = 0
    /\ queried = {}

====
